---- MODULE Spec2Model ----
(***************************************************************************)
(* cert-checker (main.go): one run of the TLS certificate expiry checker.  *)
(*                                                                         *)
(* Instants are whole seconds counted from Go's zero time.Time; a           *)
(* time.Duration is a difference of two instants.  The float division      *)
(* Hours()/24 of checkCertificate is taken as exact at this resolution.     *)
(* Strings of the program that are not ASCII are rendered in English.       *)
(***************************************************************************)
EXTENDS Integers, Sequences, FiniteSets, TLC

VARIABLES
    pc,           \* position of main: load, scan, connected, report, email, smtp_dial .. smtp_quit
                  \* (inside sendEmail), discord, exit, exited, fatal
    config,       \* *Config returned by loadConfig
    clock,        \* the wall clock, read by time.Now()
    siteIdx,      \* index of the site the range loop of checkAllSites is at
    conn,         \* the TLS connection checkCertificate holds
    results,      \* []CertInfo accumulated by checkAllSites
    dials,        \* tls.DialWithDialer calls made so far: the site dialled, the error or the chain,
                  \* and whether the connection the call returned is still open
    probedAt,     \* per result, the value time.Now() returned at main.go:238 (ZeroTime if not read)
    stdout,       \* what fmt.Println wrote to standard output
    emailCalls,   \* sendEmail calls made so far
    discordCalls, \* sendDiscordNotification calls made so far
    exitCode      \* the process exit code, -1 while the process runs

vars == <<pc, config, clock, siteIdx, conn, results, dials, probedAt, stdout,
          emailCalls, discordCalls, exitCode>>

-----------------------------------------------------------------------------
(* Bounds *)

MaxSites == 2
MaxClock == 1
MaxThreshold == 2
MaxRecipients == 2

-----------------------------------------------------------------------------
(* Time *)

DaySeconds == 24 * 60 * 60

ZeroTime == 0

StartClock == 1000 * DaySeconds

\* Go's conversion int(f) of a float64 quotient a/b, b > 0: the fraction is discarded
TruncDiv(a, b) == IF a >= 0 THEN a \div b ELSE -((-a) \div b)

DaysRemainingOf(notAfter, now) == TruncDiv(notAfter - now, DaySeconds)

-----------------------------------------------------------------------------
(* checkCertificate *)

DefaultPort == 443

\* ApplyDefaults leaving an empty name as it is
ApplyDefaultsPortOnly(site) ==
    [URL  |-> site.URL,
     Port |-> IF site.Port = 0 THEN DefaultPort ELSE site.Port,
     Name |-> site.Name]

ApplyDefaults(site) ==
    [URL  |-> site.URL,
     Port |-> IF site.Port = 0 THEN DefaultPort ELSE site.Port,
     Name |-> IF site.Name = "" THEN site.URL ELSE site.Name]

\* DetermineStatus with < for <= in the critical comparison
DetermineStatusCriticalStrict(daysRemaining, warningDays, criticalDays) ==
    IF daysRemaining < 0 THEN "CRITICAL"
    ELSE IF daysRemaining < criticalDays THEN "CRITICAL"
    ELSE IF daysRemaining <= warningDays THEN "WARNING"
    ELSE "OK"

\* DetermineStatus with < for <= in the warning comparison
DetermineStatusWarningStrict(daysRemaining, warningDays, criticalDays) ==
    IF daysRemaining < 0 THEN "CRITICAL"
    ELSE IF daysRemaining <= criticalDays THEN "CRITICAL"
    ELSE IF daysRemaining < warningDays THEN "WARNING"
    ELSE "OK"

\* DetermineStatus with = for <= in the critical comparison
DetermineStatusCriticalEqual(daysRemaining, warningDays, criticalDays) ==
    IF daysRemaining < 0 THEN "CRITICAL"
    ELSE IF daysRemaining = criticalDays THEN "CRITICAL"
    ELSE IF daysRemaining <= warningDays THEN "WARNING"
    ELSE "OK"

\* DetermineStatus with the warning comparison ahead of the critical one
DetermineStatusWarningFirst(daysRemaining, warningDays, criticalDays) ==
    IF daysRemaining < 0 THEN "CRITICAL"
    ELSE IF daysRemaining <= warningDays THEN "WARNING"
    ELSE IF daysRemaining <= criticalDays THEN "CRITICAL"
    ELSE "OK"

DetermineStatus(daysRemaining, warningDays, criticalDays) ==
    IF daysRemaining < 0 THEN "CRITICAL"
    ELSE IF daysRemaining <= criticalDays THEN "CRITICAL"
    ELSE IF daysRemaining <= warningDays THEN "WARNING"
    ELSE "OK"

RECURSIVE Join(_, _)
Join(strs, sep) ==
    IF Len(strs) = 0 THEN ""
    ELSE IF Len(strs) = 1 THEN strs[1]
    ELSE strs[1] \o sep \o Join(Tail(strs), sep)

IssuerOf(cert) ==
    LET issuer == IF Len(cert.IssuerOrganization) = 0
                  THEN <<cert.IssuerCommonName>>
                  ELSE cert.IssuerOrganization
        issuerStr == Join(issuer, ", ")
    IN  IF issuerStr = "" THEN "Unknown" ELSE issuerStr

DialErrorMessage(err) == "certificate fetch failed: " \o err

NoCertificateMessage == "no certificate found"

ErrorInfo(site, msg) ==
    [SiteName      |-> site.Name,
     URL           |-> site.URL,
     Port          |-> site.Port,
     Issuer        |-> "",
     Subject       |-> "",
     NotBefore     |-> ZeroTime,
     NotAfter      |-> ZeroTime,
     DaysRemaining |-> 0,
     Status        |-> "ERROR",
     ErrorMessage  |-> msg]

CertificateInfo(cfg, site, cert, now) ==
    LET daysRemaining == DaysRemainingOf(cert.NotAfter, now)
    IN  [SiteName      |-> site.Name,
         URL           |-> site.URL,
         Port          |-> site.Port,
         Issuer        |-> IssuerOf(cert),
         Subject       |-> cert.SubjectCommonName,
         NotBefore     |-> cert.NotBefore,
         NotAfter      |-> cert.NotAfter,
         DaysRemaining |-> daysRemaining,
         Status        |-> DetermineStatus(daysRemaining, cfg.Alert.WarningDays,
                                           cfg.Alert.CriticalDays),
         ErrorMessage  |-> ""]

\* InspectConnection returning the no-certificate result without its message
InspectConnectionNoMessage(cfg, site, certs, now) ==
    IF Len(certs) = 0
    THEN ErrorInfo(site, "")
    ELSE CertificateInfo(cfg, site, certs[1], now)

\* The result checkCertificate returns once the handshake has succeeded
InspectConnection(cfg, site, certs, now) ==
    IF Len(certs) = 0
    THEN ErrorInfo(site, NoCertificateMessage)
    ELSE CertificateInfo(cfg, site, certs[1], now)

-----------------------------------------------------------------------------
(* generateTextReport, generateHTMLReport *)

\* time.Time.Format("2006-01-02") in JST: the calendar day of the instant
FormatDate(t) == t \div DaySeconds

\* time.Time.Format("2006-01-02 15:04:05") in JST: the calendar day and the time of day
FormatTime(t) == <<FormatDate(t), t % DaySeconds>>

Address(cert) == [URL |-> cert.URL, Port |-> cert.Port]

TextBlock(cert) ==
    IF cert.Status # "ERROR"
    THEN <<<<"site", cert.SiteName>>, <<"URL", Address(cert)>>, <<"status", cert.Status>>,
           <<"issuer", cert.Issuer>>, <<"subject", cert.Subject>>,
           <<"notBefore", FormatTime(cert.NotBefore)>>,
           <<"notAfter", FormatTime(cert.NotAfter)>>,
           <<"daysRemaining", cert.DaysRemaining>>>>
    ELSE <<<<"site", cert.SiteName>>, <<"URL", Address(cert)>>, <<"status", cert.Status>>,
           <<"error", cert.ErrorMessage>>>>

\* generateTextReport giving up at the first result that is an ERROR
generateTextReportUntilError(batch, now) ==
    LET errors == {i \in 1..Len(batch) : batch[i].Status = "ERROR"}
        last   == IF errors = {} THEN Len(batch)
                  ELSE (CHOOSE i \in errors : \A j \in errors : i <= j) - 1
    IN  [checkedAt |-> FormatTime(now),
         blocks    |-> [i \in 1..last |-> TextBlock(batch[i])]]

generateTextReport(batch, now) ==
    [checkedAt |-> FormatTime(now),
     blocks    |-> [i \in 1..Len(batch) |-> TextBlock(batch[i])]]

\* strings.ToLower on the status names
ToLower(status) ==
    CASE status = "OK" -> "ok"
      [] status = "WARNING" -> "warning"
      [] status = "CRITICAL" -> "critical"
      [] status = "ERROR" -> "error"
      [] OTHER -> status

HTMLRow(cert) ==
    IF cert.Status # "ERROR"
    THEN <<<<"td", cert.SiteName>>, <<"td", Address(cert)>>, <<"td", cert.Issuer>>,
           <<"td", FormatDate(cert.NotAfter)>>, <<"td", cert.DaysRemaining>>,
           <<"td", ToLower(cert.Status), cert.Status>>>>
    ELSE <<<<"td", cert.SiteName>>, <<"td", Address(cert)>>,
           <<"td colspan=3", cert.ErrorMessage>>,
           <<"td", ToLower(cert.Status), cert.Status>>>>

generateHTMLReport(batch, now) ==
    [checkedAt |-> FormatTime(now),
     rows      |-> [i \in 1..Len(batch) |-> HTMLRow(batch[i])]]

-----------------------------------------------------------------------------
(* sendDiscordNotification *)

PlaceholderWebhookURL == "https://discord.com/api/webhooks/YOUR_WEBHOOK_ID/YOUR_WEBHOOK_TOKEN"

Range(seq) == {seq[i] : i \in 1..Len(seq)}

\* The inner loop of the filter without its break: a result is appended once for every
\* entry of notifyOn that names its status
RECURSIVE AppendPerMatch(_, _, _)
AppendPerMatch(filtered, result, notifyOn) ==
    IF Len(notifyOn) = 0 THEN filtered
    ELSE AppendPerMatch(IF result.Status = Head(notifyOn) THEN Append(filtered, result)
                        ELSE filtered,
                        result, Tail(notifyOn))

RECURSIVE FilterPerMatch(_, _, _)
FilterPerMatch(filtered, batch, notifyOn) ==
    IF Len(batch) = 0 THEN filtered
    ELSE FilterPerMatch(AppendPerMatch(filtered, Head(batch), notifyOn), Tail(batch), notifyOn)

\* FilterResults without the break
FilterResultsNoBreak(batch, notifyOn) ==
    IF Len(notifyOn) > 0 THEN FilterPerMatch(<<>>, batch, notifyOn) ELSE batch

\* FilterResults letting every result through whatever the policy
FilterResultsUnfiltered(batch, notifyOn) == batch

\* filteredResults: with a policy, the results whose status some entry of notifyOn names, each
\* appended at its first match (break); without one, the whole batch
FilterResults(batch, notifyOn) ==
    IF Len(notifyOn) > 0
    THEN SelectSeq(batch, LAMBDA r : r.Status \in Range(notifyOn))
    ELSE batch

\* colorMap; the colors are 0xRRGGBB: 0x00FF00, 0xFFA500, 0xFF0000, 0x8B0000
colorMap ==
    [status \in {"OK", "WARNING", "CRITICAL", "ERROR"} |->
        CASE status = "OK" -> 65280
          [] status = "WARNING" -> 16753920
          [] status = "CRITICAL" -> 16711680
          [] status = "ERROR" -> 9109504]

\* color := colorMap[cert.Status], a missing key giving 0, and 0 replaced by gray 0x808080
ColorOf(status) ==
    LET color == IF status \in DOMAIN colorMap THEN colorMap[status] ELSE 0
    IN  IF color = 0 THEN 8421504 ELSE color

\* EmbedOf giving every result the fields of a certificate
EmbedOfCertificateOnly(cert, now) ==
    [Title     |-> cert.SiteName,
     Color     |-> ColorOf(cert.Status),
     Fields    |-> <<<<"URL", Address(cert)>>, <<"status", cert.Status>>,
                     <<"daysRemaining", cert.DaysRemaining>>,
                     <<"issuer", cert.Issuer>>,
                     <<"notAfter", FormatTime(cert.NotAfter)>>>>,
     Timestamp |-> now]

EmbedOf(cert, now) ==
    [Title     |-> cert.SiteName,
     Color     |-> ColorOf(cert.Status),
     Fields    |-> IF cert.Status # "ERROR"
                   THEN <<<<"URL", Address(cert)>>, <<"status", cert.Status>>,
                          <<"daysRemaining", cert.DaysRemaining>>,
                          <<"issuer", cert.Issuer>>,
                          <<"notAfter", FormatTime(cert.NotAfter)>>>>
                   ELSE <<<<"URL", Address(cert)>>, <<"status", cert.Status>>,
                          <<"error", cert.ErrorMessage>>>>,
     Timestamp |-> now]

\* DiscordPosts taking the placeholder for a real webhook
DiscordPostsToPlaceholder(cfg, batch) ==
    /\ cfg.Discord.Enabled
    /\ cfg.Discord.WebhookURL # ""
    /\ Len(FilterResults(batch, cfg.Discord.NotifyOn)) # 0

\* TRUE when sendDiscordNotification gets as far as http.Post
DiscordPosts(cfg, batch) ==
    /\ cfg.Discord.Enabled
    /\ cfg.Discord.WebhookURL # ""
    /\ cfg.Discord.WebhookURL # PlaceholderWebhookURL
    /\ Len(FilterResults(batch, cfg.Discord.NotifyOn)) # 0

DiscordEmbeds(cfg, batch, now) ==
    LET filteredResults == FilterResults(batch, cfg.Discord.NotifyOn)
    IN  [i \in 1..Len(filteredResults) |-> EmbedOf(filteredResults[i], now)]

-----------------------------------------------------------------------------
(* main: the exit code *)

\* hasIssues overlooking WARNING
hasIssuesNoWarning(batch) ==
    \E i \in 1..Len(batch) :
        batch[i].Status = "CRITICAL" \/ batch[i].Status = "ERROR"

hasIssues(batch) ==
    \E i \in 1..Len(batch) :
        batch[i].Status = "WARNING" \/ batch[i].Status = "CRITICAL" \/ batch[i].Status = "ERROR"

ExitCodeOf(batch) == IF hasIssues(batch) THEN 1 ELSE 0


-----------------------------------------------------------------------------
(* Inputs: the settings file, the servers' certificates, the network *)

\* Site entries of the settings file: port and name given or left out
SiteSet ==
    {[URL |-> "example.com", Port |-> p, Name |-> n] : p \in {0, 8443}, n \in {"", "Example"}}

SiteLists == UNION {[1..n -> SiteSet] : n \in 0..MaxSites}

\* The email settings of the README's STARTTLS example, with one recipient
StartTLSEmail(enabled) ==
    [Enabled |-> enabled,
     SMTP    |-> [UseSSL |-> FALSE, UseTLS |-> TRUE, Username |-> "user", Password |-> "secret"],
     To      |-> <<"admin@example.com">>]

\* Email left out of the settings file: the zero value of Config.Email
NoEmail ==
    [Enabled |-> FALSE,
     SMTP    |-> [UseSSL |-> FALSE, UseTLS |-> FALSE, Username |-> "", Password |-> ""],
     To      |-> <<>>]

DiscordSettings ==
    {[Enabled |-> FALSE, WebhookURL |-> "", NotifyOn |-> <<>>],
     [Enabled |-> TRUE, WebhookURL |-> PlaceholderWebhookURL, NotifyOn |-> <<>>],
     [Enabled |-> TRUE, WebhookURL |-> "https://discord.test/hook", NotifyOn |-> <<>>],
     [Enabled |-> TRUE, WebhookURL |-> "https://discord.test/hook",
      NotifyOn |-> <<"CRITICAL", "ERROR">>]}

\* Settings of a whole run: one pair of thresholds, every site list and dispatch setting
RunConfigs ==
    {[Sites   |-> sl,
      Alert   |-> [WarningDays |-> MaxThreshold, CriticalDays |-> MaxThreshold - 1],
      Email   |-> StartTLSEmail(e),
      Discord |-> d] : sl \in SiteLists, e \in BOOLEAN, d \in DiscordSettings}

Thresholds == (-1)..MaxThreshold

\* Settings of a scan of two sites under every pair of thresholds
ScanConfigs ==
    {[Sites   |-> [i \in 1..2 |-> [URL |-> "example.com", Port |-> 0, Name |-> ""]],
      Alert   |-> [WarningDays |-> w, CriticalDays |-> c],
      Email   |-> NoEmail,
      Discord |-> [Enabled |-> FALSE, WebhookURL |-> "", NotifyOn |-> <<>>]] :
        w \in Thresholds, c \in Thresholds}

Leaf(notAfter, org, issuerCN, subjectCN) ==
    [IssuerOrganization |-> org,
     IssuerCommonName   |-> issuerCN,
     SubjectCommonName  |-> subjectCN,
     NotBefore          |-> StartClock - 90 * DaySeconds,
     NotAfter           |-> notAfter]

\* Expiry instants around the start of the run: whole and half days before and after it
ExpiryInstants ==
    {StartClock + d * DaySeconds + h * (DaySeconds \div 2) :
        d \in (-2)..(MaxThreshold + 1), h \in 0..1}

\* Chains presented to a scan: a leaf for every expiry instant
ScanChains == {<<Leaf(t, <<"CA Org">>, "CA", "example.com")>> : t \in ExpiryInstants}

\* Chains presented to a whole run: none, and leaves that are expired, inside the warning
\* window and outside it; the issuer is named by organizations, by its common name alone,
\* or not at all, the subject may have no common name, and the last chain also carries the
\* issuer's own certificate
RunChains ==
    {<<>>,
     <<Leaf(StartClock - DaySeconds, <<"CA Org">>, "CA", "example.com")>>,
     <<Leaf(StartClock + MaxThreshold * DaySeconds, <<>>, "CA", "")>>,
     <<Leaf(StartClock + (MaxThreshold + 1) * DaySeconds, <<>>, "", "example.com")>>,
     <<Leaf(StartClock + (MaxThreshold + 1) * DaySeconds, <<"CA Org", "CA Unit">>, "CA",
            "example.com"),
       Leaf(StartClock + 900 * DaySeconds, <<"Root Org">>, "Root", "CA")>>}

\* notify_on lists of the settings file: none, one status, two, one naming a status twice,
\* all four, and one naming no status the program produces
NotifyPolicies ==
    {<<>>, <<"CRITICAL">>, <<"CRITICAL", "ERROR">>, <<"ERROR", "CRITICAL", "ERROR">>,
     <<"OK", "WARNING", "CRITICAL", "ERROR">>, <<"UNKNOWN">>}

WebhookURLs == {"", PlaceholderWebhookURL, "https://discord.test/hook"}

\* Settings of a run that dispatches to the webhook only: up to MaxSites sites with nothing
\* left out, every webhook setting
DispatchConfigs ==
    {[Sites   |-> [i \in 1..n |-> [URL |-> "example.com", Port |-> 443, Name |-> "Example"]],
      Alert   |-> [WarningDays |-> MaxThreshold, CriticalDays |-> MaxThreshold - 1],
      Email   |-> NoEmail,
      Discord |-> [Enabled |-> e, WebhookURL |-> u, NotifyOn |-> p]] :
        n \in 0..MaxSites, e \in BOOLEAN, u \in WebhookURLs, p \in NotifyPolicies}

\* Chains presented to a dispatching run: a leaf that is expired, one inside the warning
\* window and one outside it
DispatchChains ==
    {<<Leaf(StartClock - DaySeconds, <<"CA Org">>, "CA", "example.com")>>,
     <<Leaf(StartClock + MaxThreshold * DaySeconds, <<"CA Org">>, "CA", "example.com")>>,
     <<Leaf(StartClock + (MaxThreshold + 1) * DaySeconds, <<"CA Org">>, "CA", "example.com")>>}

Recipients == {"admin@example.com", "ops@example.com"}

\* Settings of a run that sends the email: one site, both transport switches, user name and
\* password set or left out, up to MaxRecipients recipients
EmailConfigs ==
    {[Sites   |-> <<[URL |-> "example.com", Port |-> 443, Name |-> "Example"]>>,
      Alert   |-> [WarningDays |-> MaxThreshold, CriticalDays |-> MaxThreshold - 1],
      Email   |-> [Enabled |-> TRUE,
                   SMTP    |-> [UseSSL |-> ssl, UseTLS |-> tls, Username |-> u, Password |-> pw],
                   To      |-> to],
      Discord |-> [Enabled |-> FALSE, WebhookURL |-> "", NotifyOn |-> <<>>]] :
        ssl \in BOOLEAN, tls \in BOOLEAN, u \in {"", "user"}, pw \in {"", "secret"},
        to \in UNION {[1..n -> Recipients] : n \in 0..MaxRecipients}}

\* Settings of a run that prints the report and sends it by email: up to MaxSites sites
ReportConfigs ==
    {[Sites   |-> [i \in 1..n |-> [URL |-> "example.com", Port |-> 443, Name |-> "Example"]],
      Alert   |-> [WarningDays |-> MaxThreshold, CriticalDays |-> MaxThreshold - 1],
      Email   |-> StartTLSEmail(TRUE),
      Discord |-> [Enabled |-> FALSE, WebhookURL |-> "", NotifyOn |-> <<>>]] :
        n \in 0..MaxSites}

DialErrors == {"dial tcp: lookup example.com: no such host"}

NoConn == [open |-> FALSE, certs |-> <<>>]

-----------------------------------------------------------------------------
(* Initial state: the process has started and main is about to call loadConfig *)

Init ==
    /\ pc = "load"
    /\ config = [Sites |-> <<>>, Alert |-> [WarningDays |-> 0, CriticalDays |-> 0],
                 Email |-> NoEmail,
                 Discord |-> [Enabled |-> FALSE, WebhookURL |-> "", NotifyOn |-> <<>>]]
    /\ clock = StartClock
    /\ siteIdx = 0
    /\ conn = NoConn
    /\ results = <<>>
    /\ dials = <<>>
    /\ probedAt = <<>>
    /\ stdout = <<>>
    /\ emailCalls = <<>>
    /\ discordCalls = <<>>
    /\ exitCode = -1

\* Time passes between any two steps of the run
Tick ==
    /\ pc \notin {"exited", "fatal"}
    /\ clock < StartClock + MaxClock
    /\ clock' = clock + 1
    /\ UNCHANGED <<pc, config, siteIdx, conn, results, dials, probedAt, stdout,
                   emailCalls, discordCalls, exitCode>>

\* loadConfig returns the settings; main sets up the logger and enters checkAllSites
LoadConfigFrom(configs) ==
    /\ pc = "load"
    /\ \E cfg \in configs : config' = cfg
    /\ pc' = "scan"
    /\ siteIdx' = 1
    /\ UNCHANGED <<clock, conn, results, dials, probedAt, stdout, emailCalls,
                   discordCalls, exitCode>>

\* LoadConfigFail with the error only logged: main goes on with the settings it has
LoadConfigFailLogged ==
    /\ pc = "load"
    /\ pc' = "report"
    /\ UNCHANGED <<config, clock, siteIdx, conn, results, dials, probedAt, stdout,
                   emailCalls, discordCalls, exitCode>>

\* loadConfig returns an error: log.Fatalf ends the process with exit code 1
LoadConfigFail ==
    /\ pc = "load"
    /\ pc' = "fatal"
    /\ exitCode' = 1
    /\ UNCHANGED <<config, clock, siteIdx, conn, results, dials, probedAt, stdout,
                   emailCalls, discordCalls>>

LoadRunConfig == LoadConfigFrom(RunConfigs)

LoadScanConfig == LoadConfigFrom(ScanConfigs)

LoadDispatchConfig == LoadConfigFrom(DispatchConfigs)

LoadEmailConfig == LoadConfigFrom(EmailConfigs)

LoadReportConfig == LoadConfigFrom(ReportConfigs)

-----------------------------------------------------------------------------
(* checkAllSites: one iteration of the range loop is one call of checkCertificate *)

\* Accumulate dropping the result of a failed probe
AccumulateSuccesses(batch, result) ==
    IF result.Status = "ERROR" THEN batch ELSE Append(batch, result)

\* results = append(results, result)
Accumulate(batch, result) == Append(batch, result)

CurrentSite == ApplyDefaults(config.Sites[siteIdx])

\* checkCertificate up to a failed tls.DialWithDialer: the ERROR result is returned and appended
DialFail ==
    /\ pc = "scan"
    /\ siteIdx \in 1..Len(config.Sites)
    /\ \E err \in DialErrors :
           /\ results' = Accumulate(results, ErrorInfo(CurrentSite, DialErrorMessage(err)))
           /\ dials' = Append(dials, [site |-> siteIdx, err |-> err, certs |-> <<>>, open |-> FALSE])
    /\ probedAt' = Append(probedAt, ZeroTime)
    /\ siteIdx' = siteIdx + 1
    /\ UNCHANGED <<pc, config, clock, conn, stdout, emailCalls, discordCalls, exitCode>>

\* checkCertificate up to a successful tls.DialWithDialer: the connection is open
DialOkFrom(chains) ==
    /\ pc = "scan"
    /\ siteIdx \in 1..Len(config.Sites)
    /\ \E certs \in chains :
           /\ conn' = [open |-> TRUE, certs |-> certs]
           /\ dials' = Append(dials, [site |-> siteIdx, err |-> "", certs |-> certs, open |-> TRUE])
    /\ pc' = "connected"
    /\ UNCHANGED <<config, clock, siteIdx, results, probedAt, stdout, emailCalls,
                   discordCalls, exitCode>>

DialOk == DialOkFrom(RunChains)

DialScan == DialOkFrom(ScanChains)

DialDispatch == DialOkFrom(DispatchChains)

\* ReturnFromConnection with conn.Close() called after the certificate check instead of
\* deferred: the return for a chain without certificates leaves the connection open
ReturnFromConnectionCloseAtEnd ==
    /\ pc = "connected"
    /\ results' = Accumulate(results, InspectConnection(config, CurrentSite, conn.certs, clock))
    /\ probedAt' = Append(probedAt, IF Len(conn.certs) = 0 THEN ZeroTime ELSE clock)
    /\ dials' = [dials EXCEPT ![Len(dials)].open = (Len(conn.certs) = 0)]
    /\ conn' = NoConn
    /\ siteIdx' = siteIdx + 1
    /\ pc' = "scan"
    /\ UNCHANGED <<config, clock, stdout, emailCalls, discordCalls, exitCode>>

\* The rest of checkCertificate: the peer certificates are read, the result is built, the
\* deferred conn.Close() runs, and checkAllSites appends the result
ReturnFromConnection ==
    /\ pc = "connected"
    /\ results' = Accumulate(results, InspectConnection(config, CurrentSite, conn.certs, clock))
    /\ probedAt' = Append(probedAt, IF Len(conn.certs) = 0 THEN ZeroTime ELSE clock)
    /\ dials' = [dials EXCEPT ![Len(dials)].open = FALSE]
    /\ conn' = NoConn
    /\ siteIdx' = siteIdx + 1
    /\ pc' = "scan"
    /\ UNCHANGED <<config, clock, stdout, emailCalls, discordCalls, exitCode>>

\* The range loop is over: checkAllSites returns the batch to main
CheckAllSitesReturn ==
    /\ pc = "scan"
    /\ siteIdx > Len(config.Sites)
    /\ pc' = "report"
    /\ UNCHANGED <<config, clock, siteIdx, conn, results, dials, probedAt, stdout,
                   emailCalls, discordCalls, exitCode>>

-----------------------------------------------------------------------------
(* main after the scan *)

\* PrintReport writing the report to the console only when no email will carry it
PrintReportUnlessEmail ==
    /\ pc = "report"
    /\ stdout' = IF config.Email.Enabled THEN stdout
                 ELSE Append(stdout, generateTextReport(results, clock))
    /\ pc' = "email"
    /\ UNCHANGED <<config, clock, siteIdx, conn, results, dials, probedAt, emailCalls,
                   discordCalls, exitCode>>

\* textReport := generateTextReport(results); fmt.Println
PrintReport ==
    /\ pc = "report"
    /\ stdout' = Append(stdout, generateTextReport(results, clock))
    /\ pc' = "email"
    /\ UNCHANGED <<config, clock, siteIdx, conn, results, dials, probedAt, emailCalls,
                   discordCalls, exitCode>>

\* AfterEmail leaving out the webhook when the email failed
AfterEmailSkipDiscord(err) == IF err THEN "exit" ELSE "discord"

\* Where main goes once sendEmail has returned err (TRUE: an error): it only logs
AfterEmail(err) == "discord"

EmailDisabled ==
    /\ pc = "email"
    /\ ~config.Email.Enabled
    /\ pc' = "discord"
    /\ UNCHANGED <<config, clock, siteIdx, conn, results, dials, probedAt, stdout,
                   emailCalls, discordCalls, exitCode>>

\* auth != nil: smtp.PlainAuth is built only when user name and password are both set
PlainAuthConfigured(cfg) ==
    cfg.Email.SMTP.Username # "" /\ cfg.Email.SMTP.Password # ""

\* UsesImplicitTLS giving way to use_tls when both switches are set
UsesImplicitTLSUnlessStartTLS(cfg) == cfg.Email.SMTP.UseSSL /\ ~cfg.Email.SMTP.UseTLS

\* The branch of sendEmail taken at `if config.Email.SMTP.UseSSL`
UsesImplicitTLS(cfg) == cfg.Email.SMTP.UseSSL

\* EmailCall putting the report main printed into the message
EmailCallReusingConsoleReport(cfg, batch, now, path) ==
    [results    |-> batch,
     textReport |-> stdout[Len(stdout)],
     htmlReport |-> generateHTMLReport(batch, now),
     path       |-> path,
     auth       |-> PlainAuthConfigured(cfg),
     log        |-> <<>>,
     sent       |-> FALSE,
     returned   |-> FALSE,
     err        |-> FALSE]

\* A sendEmail call as it starts: both reports are generated afresh and put in the message
EmailCall(cfg, batch, now, path) ==
    [results    |-> batch,
     textReport |-> generateTextReport(batch, now),
     htmlReport |-> generateHTMLReport(batch, now),
     path       |-> path,
     auth       |-> PlainAuthConfigured(cfg),
     log        |-> <<>>,
     sent       |-> FALSE,
     returned   |-> FALSE,
     err        |-> FALSE]

\* sendEmail without use_ssl: the message goes to smtp.SendMail, with or without use_tls,
\* which delivers it or returns an error
SendEmail ==
    /\ pc = "email"
    /\ config.Email.Enabled
    /\ ~UsesImplicitTLS(config)
    /\ \E err \in BOOLEAN :
           /\ emailCalls' = Append(emailCalls,
                                   [EmailCall(config, results, clock, "SendMail")
                                        EXCEPT !.sent = ~err, !.returned = TRUE, !.err = err])
           /\ pc' = AfterEmail(err)
    /\ UNCHANGED <<config, clock, siteIdx, conn, results, dials, probedAt, stdout,
                   discordCalls, exitCode>>

\* sendEmail with use_ssl, up to tls.Dial
SendEmailImplicitTLS ==
    /\ pc = "email"
    /\ config.Email.Enabled
    /\ UsesImplicitTLS(config)
    /\ emailCalls' = Append(emailCalls, EmailCall(config, results, clock, "ImplicitTLS"))
    /\ pc' = "smtp_dial"
    /\ UNCHANGED <<config, clock, siteIdx, conn, results, dials, probedAt, stdout,
                   discordCalls, exitCode>>

\* StageResult going on to the next stage although the stage failed
StageResultIgnoringError(call, stage, arg, ok) ==
    [call EXCEPT !.log = Append(@, [stage |-> stage, arg |-> arg, ok |-> ok])]

\* The call after one stage of the implicit-TLS path: the stage is on record, and a failed
\* stage makes sendEmail return its error
StageResult(call, stage, arg, ok) ==
    [call EXCEPT !.log = Append(@, [stage |-> stage, arg |-> arg, ok |-> ok]),
                 !.returned = ~ok,
                 !.err = ~ok]

CurrentEmail == emailCalls[Len(emailCalls)]

\* One stage of the implicit-TLS path: it succeeds and sendEmail goes on to `next`, or it
\* fails and sendEmail returns
SMTPStage(at, stage, arg, next) ==
    /\ pc = at
    /\ \E ok \in BOOLEAN :
           LET call == StageResult(CurrentEmail, stage, arg, ok)
           IN  /\ emailCalls' = [emailCalls EXCEPT ![Len(emailCalls)] = call]
               /\ pc' = IF call.returned THEN AfterEmail(call.err) ELSE next
    /\ UNCHANGED <<config, clock, siteIdx, conn, results, dials, probedAt, stdout,
                   discordCalls, exitCode>>

\* conn, err := tls.Dial("tcp", smtpAddr, tlsConfig)
SMTPDial == SMTPStage("smtp_dial", "DIAL", "", "smtp_client")

\* client, err := smtp.NewClient(conn, host); then client.Auth only if auth != nil
SMTPNewClient ==
    SMTPStage("smtp_client", "CLIENT", "",
              IF CurrentEmail.auth THEN "smtp_auth" ELSE "smtp_mail")

\* client.Auth(auth)
SMTPAuth == SMTPStage("smtp_auth", "AUTH", config.Email.SMTP.Username, "smtp_mail")

\* client.Mail(config.Email.From); then the range loop over config.Email.To
SMTPMail ==
    SMTPStage("smtp_mail", "MAIL", "",
              IF Len(config.Email.To) > 0 THEN "smtp_rcpt" ELSE "smtp_data")

\* Recipients already given to client.Rcpt by the current call
RcptDone == Cardinality({k \in 1..Len(CurrentEmail.log) : CurrentEmail.log[k].stage = "RCPT"})

\* client.Rcpt(to) for the next recipient of config.Email.To
SMTPRcpt ==
    /\ pc = "smtp_rcpt"
    /\ RcptDone < Len(config.Email.To)
    /\ SMTPStage("smtp_rcpt", "RCPT", config.Email.To[RcptDone + 1],
                 IF RcptDone + 1 < Len(config.Email.To) THEN "smtp_rcpt" ELSE "smtp_data")

\* w, err := client.Data()
SMTPData == SMTPStage("smtp_data", "DATA", "", "smtp_write")

\* w.Write([]byte(message)): the message body goes out
SMTPWrite ==
    /\ pc = "smtp_write"
    /\ \E ok \in BOOLEAN :
           LET call == StageResult(CurrentEmail, "WRITE", "", ok)
           IN  /\ emailCalls' = [emailCalls EXCEPT ![Len(emailCalls)] =
                                     [call EXCEPT !.sent = TRUE]]
               /\ pc' = IF call.returned THEN AfterEmail(call.err) ELSE "smtp_close"
    /\ UNCHANGED <<config, clock, siteIdx, conn, results, dials, probedAt, stdout,
                   discordCalls, exitCode>>

\* w.Close()
SMTPClose == SMTPStage("smtp_close", "CLOSE", "", "smtp_quit")

\* return client.Quit(): sendEmail returns whatever Quit returned
SMTPQuit ==
    /\ pc = "smtp_quit"
    /\ \E ok \in BOOLEAN :
           LET call == StageResult(CurrentEmail, "QUIT", "", ok)
           IN  /\ emailCalls' = [emailCalls EXCEPT ![Len(emailCalls)] =
                                     [call EXCEPT !.returned = TRUE, !.err = ~ok]]
               /\ pc' = AfterEmail(~ok)
    /\ UNCHANGED <<config, clock, siteIdx, conn, results, dials, probedAt, stdout,
                   discordCalls, exitCode>>

\* What http.Post can return: a transport error, or a response with a status code
PostOutcomes ==
    {[transportError |-> TRUE, StatusCode |-> 0]}
    \cup {[transportError |-> FALSE, StatusCode |-> c] : c \in {204, 400}}

\* PostError taking every response other than 204 No Content for a failure
PostErrorUnless204(resp) == resp.transportError \/ resp.StatusCode # 204

\* The error sendDiscordNotification returns after http.Post: the transport error if there
\* was one; a response of any status code is only logged
PostError(resp) == resp.transportError

\* http.Post answered with 200, 204, 400 or 500, or not at all
DispatchPostOutcomes ==
    {[transportError |-> TRUE, StatusCode |-> 0]}
    \cup {[transportError |-> FALSE, StatusCode |-> c] : c \in {200, 204, 400, 500}}

\* sendDiscordNotification, called by main whatever sendEmail returned; `outcomes` is what
\* http.Post can return
SendDiscordNotificationTo(outcomes) ==
    /\ pc = "discord"
    /\ IF DiscordPosts(config, results)
       THEN \E resp \in outcomes :
                discordCalls' = Append(discordCalls,
                                       [results  |-> results,
                                        filtered |-> FilterResults(results,
                                                                   config.Discord.NotifyOn),
                                        posted   |-> TRUE,
                                        embeds   |-> DiscordEmbeds(config, results, clock),
                                        response |-> resp,
                                        err      |-> PostError(resp)])
       ELSE discordCalls' = Append(discordCalls,
                                   [results  |-> results,
                                    filtered |-> <<>>,
                                    posted   |-> FALSE,
                                    embeds   |-> <<>>,
                                    response |-> [transportError |-> FALSE, StatusCode |-> 0],
                                    err      |-> FALSE])
    /\ pc' = "exit"
    /\ UNCHANGED <<config, clock, siteIdx, conn, results, dials, probedAt, stdout,
                   emailCalls, exitCode>>

SendDiscordNotification == SendDiscordNotificationTo(PostOutcomes)

\* The webhook answering with other status codes as well
SendDiscordNotificationAnyCode == SendDiscordNotificationTo(DispatchPostOutcomes)

\* The end of main: os.Exit(1) if a result has an issue, else main returns
Exit ==
    /\ pc = "exit"
    /\ exitCode' = ExitCodeOf(results)
    /\ pc' = "exited"
    /\ UNCHANGED <<config, clock, siteIdx, conn, results, dials, probedAt, stdout,
                   emailCalls, discordCalls>>

-----------------------------------------------------------------------------
(* Specifications *)

\* A whole run of main, over every site list and dispatch setting, at one instant
Next ==
    \/ LoadRunConfig
    \/ LoadConfigFail
    \/ DialFail
    \/ DialOk
    \/ ReturnFromConnection
    \/ CheckAllSitesReturn
    \/ PrintReport
    \/ EmailDisabled
    \/ SendEmail
    \/ SendDiscordNotification
    \/ Exit

Spec == Init /\ [][Next]_vars

\* checkAllSites over two sites, under every pair of thresholds and every expiry instant,
\* while time passes
NextScan ==
    \/ Tick
    \/ LoadScanConfig
    \/ DialScan
    \/ ReturnFromConnection
    \/ CheckAllSitesReturn

SpecScan == Init /\ [][NextScan]_vars

\* A whole run of main with the email off, over every webhook setting and notify_on list
NextDispatch ==
    \/ LoadDispatchConfig
    \/ DialFail
    \/ DialDispatch
    \/ ReturnFromConnection
    \/ CheckAllSitesReturn
    \/ PrintReport
    \/ EmailDisabled
    \/ SendDiscordNotificationAnyCode
    \/ Exit

SpecDispatch == Init /\ [][NextDispatch]_vars

\* A whole run of main with the email on, over every transport setting of sendEmail
NextEmail ==
    \/ LoadEmailConfig
    \/ DialFail
    \/ DialDispatch
    \/ ReturnFromConnection
    \/ CheckAllSitesReturn
    \/ PrintReport
    \/ SendEmail
    \/ SendEmailImplicitTLS
    \/ SMTPDial
    \/ SMTPNewClient
    \/ SMTPAuth
    \/ SMTPMail
    \/ SMTPRcpt
    \/ SMTPData
    \/ SMTPWrite
    \/ SMTPClose
    \/ SMTPQuit
    \/ SendDiscordNotification
    \/ Exit

SpecEmail == Init /\ [][NextEmail]_vars

\* A whole run of main with the email on, while time passes
NextReport ==
    \/ Tick
    \/ LoadReportConfig
    \/ DialFail
    \/ DialDispatch
    \/ ReturnFromConnection
    \/ CheckAllSitesReturn
    \/ PrintReport
    \/ SendEmail
    \/ SendDiscordNotification
    \/ Exit

SpecReport == Init /\ [][NextReport]_vars

-----------------------------------------------------------------------------
(* Properties of the classification, checked under SpecScan *)

Probed == 1..Len(results)

Succeeded(i) == results[i].Status # "ERROR"

W == config.Alert.WarningDays

C == config.Alert.CriticalDays

Severity(status) ==
    CASE status = "OK" -> 0
      [] status = "WARNING" -> 1
      [] status = "CRITICAL" -> 2
      [] OTHER -> 3

\* C1: with thresholds 0 <= criticalDays <= warningDays, the status of a successfully
\* probed certificate is CRITICAL when daysRemaining < 0, CRITICAL when
\* 0 <= daysRemaining <= criticalDays, WARNING when criticalDays < daysRemaining <=
\* warningDays, and OK when daysRemaining > warningDays.
C1_StatusByBucket ==
    (0 <= C /\ C <= W) =>
        \A i \in Probed :
            Succeeded(i) =>
                LET d == results[i].DaysRemaining
                    st == results[i].Status
                IN  /\ d < 0 => st = "CRITICAL"
                    /\ (0 <= d /\ d <= C) => st = "CRITICAL"
                    /\ (C < d /\ d <= W) => st = "WARNING"
                    /\ d > W => st = "OK"

\* C1 witness: under thresholds 0 <= criticalDays < warningDays a batch holds a result on
\* the critical boundary and a result on the warning boundary
C1_Witness ==
    /\ 0 <= C /\ C < W
    /\ Len(results) = 2
    /\ results[1].DaysRemaining = C /\ results[1].Status = "CRITICAL"
    /\ results[2].DaysRemaining = W /\ results[2].Status = "WARNING"

\* C2 as stated: for every pair of non-negative thresholds, daysRemaining = criticalDays is
\* CRITICAL, daysRemaining = warningDays is WARNING, and daysRemaining = -1 is CRITICAL.
C2_BoundaryLawAnyThresholds ==
    (0 <= C /\ 0 <= W) =>
        \A i \in Probed :
            Succeeded(i) =>
                LET d == results[i].DaysRemaining
                    st == results[i].Status
                IN  /\ d = C => st = "CRITICAL"
                    /\ d = W => st = "WARNING"
                    /\ d = -1 => st = "CRITICAL"

\* C2 amended: for every pair of non-negative thresholds, daysRemaining = criticalDays is
\* CRITICAL and daysRemaining = -1 is CRITICAL; daysRemaining = warningDays is WARNING
\* when criticalDays < warningDays and CRITICAL when warningDays <= criticalDays; it is
\* never OK.
C2_BoundaryLaw ==
    (0 <= C /\ 0 <= W) =>
        \A i \in Probed :
            Succeeded(i) =>
                LET d == results[i].DaysRemaining
                    st == results[i].Status
                IN  /\ d = C => st = "CRITICAL"
                    /\ (d = W /\ C < W) => st = "WARNING"
                    /\ (d = W /\ W <= C) => st = "CRITICAL"
                    /\ d = -1 => st = "CRITICAL"

\* C2 witness: non-negative thresholds with warningDays <= criticalDays and a certificate
\* with daysRemaining = warningDays, next to one with daysRemaining = -1
C2_Witness ==
    /\ 0 <= W /\ W <= C
    /\ Len(results) = 2
    /\ results[1].DaysRemaining = W /\ results[1].Status = "CRITICAL"
    /\ results[2].DaysRemaining = -1 /\ results[2].Status = "CRITICAL"

\* C3 as stated: daysRemaining is the floor of (notAfter - now) in whole days, so it is
\* negative for every certificate whose notAfter lies strictly before now.
C3_DaysRemainingIsFloor ==
    \A i \in Probed :
        Succeeded(i) =>
            /\ results[i].DaysRemaining = (results[i].NotAfter - probedAt[i]) \div DaySeconds
            /\ results[i].NotAfter < probedAt[i] => results[i].DaysRemaining < 0

\* C4: under thresholds criticalDays <= warningDays, of two certificates the one with
\* fewer days remaining has a status at least as severe (OK < WARNING < CRITICAL).
C4_Monotonic ==
    C <= W =>
        \A i, j \in Probed :
            (Succeeded(i) /\ Succeeded(j)
             /\ results[i].DaysRemaining <= results[j].DaysRemaining)
                => Severity(results[i].Status) >= Severity(results[j].Status)

\* C4 witness: under criticalDays < warningDays a batch holds a certificate with fewer
\* days and a strictly more severe status than another
C4_Witness ==
    /\ C < W
    /\ Len(results) = 2
    /\ results[1].DaysRemaining < results[2].DaysRemaining
    /\ results[1].Status = "CRITICAL"
    /\ results[2].Status = "WARNING"

-----------------------------------------------------------------------------
(* Properties of a whole run, checked under Spec *)

NumSites == Len(config.Sites)

ScanOver == pc \in {"report", "email", "discord", "exit", "exited"}

Dispatching == pc \in {"email", "discord", "exit", "exited"}

\* C5: a scan over N sites returns exactly N results, result i being the result of the
\* one probe of site i, whatever probes fail: no failure aborts the scan or skips a site,
\* no result is dropped and no site is dialled twice.
C5_BatchMatchesSites ==
    /\ pc = "scan" => (Len(results) = siteIdx - 1 /\ Len(dials) = siteIdx - 1)
    /\ pc = "connected" => (Len(results) = siteIdx - 1 /\ Len(dials) = siteIdx)
    /\ ScanOver => (Len(results) = NumSites /\ Len(dials) = NumSites)
    /\ \A k \in 1..Len(dials) : dials[k].site = k
    /\ \A i \in Probed :
           /\ i <= Len(dials)
           /\ results[i].URL = config.Sites[i].URL
           /\ results[i].Port \in {config.Sites[i].Port, DefaultPort}
           /\ results[i].SiteName \in {config.Sites[i].Name, config.Sites[i].URL}
           /\ results[i].Status = "ERROR" <=> (dials[i].err # "" \/ Len(dials[i].certs) = 0)

\* C5 witness: a scan of at least two sites has returned and every probe failed at the dial
C5_Witness ==
    /\ pc = "exited"
    /\ NumSites >= 2
    /\ Len(results) = NumSites
    /\ \A i \in Probed : results[i].Status = "ERROR" /\ dials[i].err # ""

CertificateFieldsZero(r) ==
    /\ r.Issuer = ""
    /\ r.Subject = ""
    /\ r.NotBefore = ZeroTime
    /\ r.NotAfter = ZeroTime
    /\ r.DaysRemaining = 0

\* C6: every result has a status among OK, WARNING, CRITICAL, ERROR; its error message is
\* non-empty exactly when the status is ERROR; its certificate fields are all zero exactly
\* when the status is ERROR (a failed dial and an empty chain alike), and otherwise carry
\* a non-empty issuer and the presented leaf's subject and validity.
C6_ResultShape ==
    \A i \in Probed :
        LET r == results[i] IN
        /\ r.Status \in {"OK", "WARNING", "CRITICAL", "ERROR"}
        /\ r.ErrorMessage # "" <=> r.Status = "ERROR"
        /\ CertificateFieldsZero(r) <=> r.Status = "ERROR"
        /\ r.Status # "ERROR" =>
               /\ i <= Len(dials) /\ Len(dials[i].certs) > 0
               /\ r.Issuer # ""
               /\ r.Subject = dials[i].certs[1].SubjectCommonName
               /\ r.NotBefore = dials[i].certs[1].NotBefore
               /\ r.NotAfter = dials[i].certs[1].NotAfter
               /\ r.NotAfter # ZeroTime

\* C6 witness: one batch holds the result of an empty chain and the result of a leaf
\* whose issuer has neither organization nor common name
C6_Witness ==
    /\ Len(results) = 2
    /\ results[1].Status = "ERROR" /\ dials[1].err = "" /\ results[1].ErrorMessage # ""
    /\ results[2].Status = "OK" /\ results[2].Issuer = "Unknown"

\* C7: the result carries the site after defaulting, on success and on failure: port 0
\* becomes 443, an empty name becomes the url, and a given port or name is kept.
C7_DefaultsVisible ==
    \A i \in Probed :
        LET site == config.Sites[i] IN
        /\ results[i].URL = site.URL
        /\ results[i].Port = (IF site.Port = 0 THEN 443 ELSE site.Port)
        /\ results[i].SiteName = (IF site.Name = "" THEN site.URL ELSE site.Name)

\* C7 witness: a failed probe of a site without port and name, and a successful probe of
\* a site without port and name
C7_Witness ==
    /\ Len(results) = 2
    /\ \A i \in 1..2 : config.Sites[i].Port = 0 /\ config.Sites[i].Name = ""
    /\ results[1].Status = "ERROR" /\ results[1].Port = 443
    /\ results[1].SiteName = "example.com"
    /\ results[2].Status # "ERROR" /\ results[2].Port = 443
    /\ results[2].SiteName = "example.com"

\* C8: a run that loaded its configuration exits with 0 exactly when every result of the
\* batch is OK (the empty batch included) and with 1 when a result is WARNING, CRITICAL or
\* ERROR, whatever the email and webhook dispatch did.
C8_ExitCode ==
    pc = "exited" =>
        /\ exitCode \in {0, 1}
        /\ exitCode = 0 <=> \A i \in Probed : results[i].Status = "OK"
        /\ exitCode = 1 <=>
               \E i \in Probed : results[i].Status \in {"WARNING", "CRITICAL", "ERROR"}

\* C8 witness: the batch holds only an OK and a WARNING result, and the run exits with 1
\* although the email was delivered and the webhook answered 204
C8_Witness ==
    /\ pc = "exited"
    /\ exitCode = 1
    /\ Len(results) = 2
    /\ results[1].Status = "OK" /\ results[2].Status = "WARNING"
    /\ Len(emailCalls) = 1 /\ ~emailCalls[1].err
    /\ Len(discordCalls) = 1 /\ discordCalls[1].posted
    /\ discordCalls[1].response.StatusCode = 204

\* C9: the text report of the full batch is written to standard output exactly once,
\* after the scan has completed and before the email or the webhook dispatch is attempted,
\* whether or not email and webhook are enabled.
C9_ReportPrintedOnce ==
    /\ ~Dispatching => (stdout = <<>> /\ emailCalls = <<>> /\ discordCalls = <<>>)
    /\ Dispatching =>
           /\ Len(stdout) = 1
           /\ Len(results) = NumSites
           /\ Len(stdout[1].blocks) = NumSites
           /\ \E t \in StartClock..clock : stdout[1] = generateTextReport(results, t)

\* C9 witness: a run with email and webhook both enabled has exited after both dispatches,
\* with the report of its two results on standard output
C9_Witness ==
    /\ pc = "exited"
    /\ config.Email.Enabled /\ config.Discord.Enabled
    /\ Len(emailCalls) = 1 /\ Len(discordCalls) = 1 /\ discordCalls[1].posted
    /\ Len(stdout) = 1 /\ Len(stdout[1].blocks) = 2

\* C10: when sendEmail returns an error the run goes on: the webhook dispatcher is invoked
\* afterwards, once, with the same batch, and the exit code is the batch's.
C10_EmailFailureContinues ==
    \A k \in 1..Len(emailCalls) :
        emailCalls[k].err =>
            /\ pc \in {"discord", "exit", "exited"}
            /\ pc = "discord" => (discordCalls = <<>> /\ ENABLED SendDiscordNotification)
            /\ pc \in {"exit", "exited"} =>
                   /\ Len(discordCalls) = 1
                   /\ discordCalls[1].results = emailCalls[k].results
                   /\ discordCalls[1].results = results
            /\ pc = "exit" => ENABLED Exit
            /\ pc = "exited" =>
                   exitCode = (IF \A i \in Probed : results[i].Status = "OK" THEN 0 ELSE 1)

\* C10 witness: the email failed, the webhook was then posted with the batch, and the run
\* has exited with the batch's exit code
C10_Witness ==
    /\ pc = "exited"
    /\ Len(emailCalls) = 1 /\ emailCalls[1].err
    /\ Len(discordCalls) = 1 /\ discordCalls[1].posted
    /\ discordCalls[1].results = results
    /\ Len(results) = 2
    /\ exitCode = 1

-----------------------------------------------------------------------------
(* Properties of the webhook dispatcher, checked under SpecDispatch *)

Policy == config.Discord.NotifyOn

\* The result passes the notify-on policy: there is none, or it names the result's status
Passes(r) == Len(Policy) = 0 \/ \E k \in 1..Len(Policy) : Policy[k] = r.Status

\* The webhook is switched on and its URL is neither empty nor the placeholder
WebhookConfigured ==
    /\ config.Discord.Enabled
    /\ config.Discord.WebhookURL # ""
    /\ config.Discord.WebhookURL # PlaceholderWebhookURL

\* Positions of the batch whose result passes the policy
PassingPositions(batch) == {i \in 1..Len(batch) : Passes(batch[i])}

\* The k-th passing position, counted from the front of the batch
NthPassing(batch, k) ==
    CHOOSE i \in PassingPositions(batch) :
        Cardinality({j \in PassingPositions(batch) : j < i}) = k - 1

\* C11: whenever the webhook is switched off, or its URL is empty, or its URL is the
\* documented placeholder, or no result of the batch passes the policy, the dispatcher makes no
\* HTTP call and returns success.
C11_WebhookNoOp ==
    \A k \in 1..Len(discordCalls) :
        (~WebhookConfigured \/ PassingPositions(discordCalls[k].results) = {}) =>
            /\ ~discordCalls[k].posted
            /\ discordCalls[k].embeds = <<>>
            /\ ~discordCalls[k].err

\* The dispatcher has returned for a configured webhook whose policy excludes every result of
\* a batch that is not empty
C11_Witness ==
    /\ pc = "exited"
    /\ WebhookConfigured
    /\ Len(results) = MaxSites
    /\ Len(Policy) > 0
    /\ PassingPositions(results) = {}
    /\ Len(discordCalls) = 1
    /\ ~discordCalls[1].posted
    /\ ~discordCalls[1].err

\* C12: with an empty policy the filtered set is the whole batch; with a policy it is the
\* results whose status the policy names, in batch order, each once, also when the policy names
\* a status twice.
C12_FilteredSet ==
    \A k \in 1..Len(discordCalls) :
        LET batch    == discordCalls[k].results
            filtered == discordCalls[k].filtered
        IN  WebhookConfigured =>
                /\ Len(filtered) = Cardinality(PassingPositions(batch))
                /\ \A j \in 1..Len(filtered) : filtered[j] = batch[NthPassing(batch, j)]
                /\ Len(Policy) = 0 => filtered = batch

\* A policy naming ERROR twice has let the ERROR result of the batch through once and kept
\* another result out
C12_Witness ==
    /\ Len(discordCalls) = 1
    /\ WebhookConfigured
    /\ Policy = <<"ERROR", "CRITICAL", "ERROR">>
    /\ Len(results) = MaxSites
    /\ results[1].Status = "OK"
    /\ results[MaxSites].Status = "ERROR"
    /\ discordCalls[1].posted
    /\ Len(discordCalls[1].filtered) < Len(results)

\* C13: a POST that fails at the transport level makes the dispatcher return an error; a POST
\* that is answered makes it return success whatever the status code of the response, and main
\* goes on to its exit either way.
C13_PostOutcome ==
    \A k \in 1..Len(discordCalls) :
        /\ discordCalls[k].posted =>
               (discordCalls[k].err <=> discordCalls[k].response.transportError)
        /\ pc \in {"exit", "exited"}

\* The webhook answered 500 and the dispatcher returned success
C13_Witness ==
    /\ Len(discordCalls) = 1
    /\ discordCalls[1].posted
    /\ ~discordCalls[1].response.transportError
    /\ discordCalls[1].response.StatusCode = 500
    /\ ~discordCalls[1].err
    /\ pc = "exited"

FieldNames(embed) == [i \in 1..Len(embed.Fields) |-> embed.Fields[i][1]]

\* C19: when the filtered set is not empty the dispatcher posts once, with one card per
\* filtered result in filtered order; a card is green for OK, orange for WARNING, red for
\* CRITICAL, dark red for ERROR and gray for any other status, and has the five certificate
\* fields for a result that is not ERROR and the three error fields for one that is.
C19_Cards ==
    /\ Len(discordCalls) <= 1
    /\ ColorOf("UNKNOWN") = 8421504
    /\ \A k \in 1..Len(discordCalls) :
           LET call == discordCalls[k]
           IN  (WebhookConfigured /\ PassingPositions(call.results) # {}) =>
                   /\ call.posted
                   /\ Len(call.embeds) = Len(call.filtered)
                   /\ \A j \in 1..Len(call.embeds) :
                          LET card == call.embeds[j]
                              r    == call.filtered[j]
                          IN  /\ card.Title = r.SiteName
                              /\ card.Fields[1] = <<"URL", Address(r)>>
                              /\ r.Status = "OK" => card.Color = 65280
                              /\ r.Status = "WARNING" => card.Color = 16753920
                              /\ r.Status = "CRITICAL" => card.Color = 16711680
                              /\ r.Status = "ERROR" => card.Color = 9109504
                              /\ r.Status # "ERROR" =>
                                     FieldNames(card) = <<"URL", "status", "daysRemaining",
                                                          "issuer", "notAfter">>
                              /\ r.Status = "ERROR" =>
                                     /\ FieldNames(card) = <<"URL", "status", "error">>
                                     /\ card.Fields[3][2] = r.ErrorMessage

\* One POST has carried a card of three fields for an ERROR result after a card of five
\* fields for a result with a certificate
C19_Witness ==
    /\ pc = "exited"
    /\ Len(discordCalls) = 1
    /\ discordCalls[1].posted
    /\ Len(discordCalls[1].embeds) = MaxSites
    /\ discordCalls[1].filtered[1].Status = "WARNING"
    /\ Len(discordCalls[1].embeds[1].Fields) = 5
    /\ discordCalls[1].filtered[MaxSites].Status = "ERROR"
    /\ Len(discordCalls[1].embeds[MaxSites].Fields) = 3

-----------------------------------------------------------------------------
(* Properties of the dispatch policy, the fatal start and the reports, checked under Spec *)

\* The result is in the email: its block is in the text report and its row in the HTML report
InEmail(call, r) ==
    /\ \E j \in 1..Len(call.textReport.blocks) : call.textReport.blocks[j] = TextBlock(r)
    /\ \E j \in 1..Len(call.htmlReport.rows) : call.htmlReport.rows[j] = HTMLRow(r)

\* The result is in the webhook payload
InWebhook(call, r) == \E j \in 1..Len(call.filtered) : call.filtered[j] = r

\* C14 as claimed: a result whose status a non-empty policy excludes is neither in the email
\* nor in the webhook payload.
C14_BothDispatchersFilter ==
    \A i \in 1..Len(results) :
        ~Passes(results[i]) =>
            /\ \A k \in 1..Len(emailCalls) : ~InEmail(emailCalls[k], results[i])
            /\ \A k \in 1..Len(discordCalls) : ~InWebhook(discordCalls[k], results[i])

\* C14: only the webhook dispatcher filters by the policy. A result whose status a non-empty
\* policy excludes is not in the webhook payload; the email carries the block and the row of
\* every result of the batch, excluded or not.
C14_OnlyWebhookFilters ==
    /\ \A k \in 1..Len(discordCalls) :
           \A i \in 1..Len(results) :
               ~Passes(results[i]) => ~InWebhook(discordCalls[k], results[i])
    /\ \A k \in 1..Len(emailCalls) :
           /\ Len(emailCalls[k].textReport.blocks) = Len(results)
           /\ Len(emailCalls[k].htmlReport.rows) = Len(results)
           /\ \A i \in 1..Len(results) :
                  /\ emailCalls[k].textReport.blocks[i] = TextBlock(results[i])
                  /\ emailCalls[k].htmlReport.rows[i] = HTMLRow(results[i])

\* Email and webhook have both gone out under the policy CRITICAL, ERROR: the OK result of the
\* batch is in the email and not in the webhook payload
C14_Witness ==
    /\ pc = "exited"
    /\ Policy = <<"CRITICAL", "ERROR">>
    /\ Len(emailCalls) = 1
    /\ ~emailCalls[1].err
    /\ Len(discordCalls) = 1
    /\ discordCalls[1].posted
    /\ \E i \in 1..Len(results) :
           /\ results[i].Status = "OK"
           /\ InEmail(emailCalls[1], results[i])
           /\ ~InWebhook(discordCalls[1], results[i])

\* C16: when loadConfig returns an error the run ends there with exit code 1: no site has been
\* probed, no report written, no email or webhook dispatch attempted, and main takes no
\* further step. Without settings (siteIdx = 0: checkAllSites was never entered) main is
\* either about to load them or has ended this way.
C16_ConfigFailureFatal ==
    /\ siteIdx = 0 => pc \in {"load", "fatal"}
    /\ pc = "fatal" =>
           /\ exitCode = 1
           /\ dials = <<>>
           /\ results = <<>>
           /\ stdout = <<>>
           /\ emailCalls = <<>>
           /\ discordCalls = <<>>
           /\ ~ENABLED Next

\* loadConfig has failed and the process is gone
C16_Witness ==
    /\ pc = "fatal"
    /\ exitCode = 1
    /\ siteIdx = 0
    /\ dials = <<>>

Labels(block) == [i \in 1..Len(block) |-> block[i][1]]

ValueOf(block, label) == block[CHOOSE i \in 1..Len(block) : block[i][1] = label][2]

\* C20: the text report has one block and the HTML report one row per result, in batch order.
\* A result that is not an ERROR is rendered with issuer, expiry and remaining days and
\* without an error message; an ERROR with its error message (in HTML in a cell merged over 3
\* columns) and without certificate fields. The class of the HTML status cell is the status
\* name in lower case.
C20_ReportShape ==
    /\ \A k \in 1..Len(stdout) :
           /\ Len(stdout[k].blocks) = Len(results)
           /\ \A i \in 1..Len(results) :
                  LET b == stdout[k].blocks[i]
                      r == results[i]
                  IN  /\ b[1] = <<"site", r.SiteName>>
                      /\ b[3] = <<"status", r.Status>>
                      /\ r.Status # "ERROR" =>
                             /\ Labels(b) = <<"site", "URL", "status", "issuer", "subject",
                                              "notBefore", "notAfter", "daysRemaining">>
                             /\ ValueOf(b, "issuer") = r.Issuer
                             /\ ValueOf(b, "notAfter") =
                                    <<r.NotAfter \div DaySeconds, r.NotAfter % DaySeconds>>
                             /\ ValueOf(b, "daysRemaining") = r.DaysRemaining
                      /\ r.Status = "ERROR" =>
                             /\ Labels(b) = <<"site", "URL", "status", "error">>
                             /\ ValueOf(b, "error") = r.ErrorMessage
    /\ \A k \in 1..Len(emailCalls) :
           /\ Len(emailCalls[k].htmlReport.rows) = Len(results)
           /\ \A i \in 1..Len(results) :
                  LET row == emailCalls[k].htmlReport.rows[i]
                      r   == results[i]
                      st  == row[Len(row)]
                  IN  /\ row[1] = <<"td", r.SiteName>>
                      /\ st[1] = "td" /\ st[3] = r.Status
                      /\ r.Status = "OK" => st[2] = "ok"
                      /\ r.Status = "WARNING" => st[2] = "warning"
                      /\ r.Status = "CRITICAL" => st[2] = "critical"
                      /\ r.Status = "ERROR" => st[2] = "error"
                      /\ r.Status # "ERROR" =>
                             /\ Len(row) = 6
                             /\ \A c \in 1..6 : row[c][1] = "td"
                             /\ row[3][2] = r.Issuer
                             /\ row[4][2] = r.NotAfter \div DaySeconds
                             /\ row[5][2] = r.DaysRemaining
                      /\ r.Status = "ERROR" =>
                             /\ Len(row) = 4
                             /\ row[3] = <<"td colspan=3", r.ErrorMessage>>

\* Console and email carry the reports of a batch whose first site failed and whose last
\* site has a certificate: the block and the row of the last site follow those of the first
C20_Witness ==
    /\ Len(stdout) = 1
    /\ Len(emailCalls) = 1
    /\ Len(results) = MaxSites
    /\ results[1].Status = "ERROR"
    /\ results[MaxSites].Status = "WARNING"
    /\ Len(stdout[1].blocks[1]) = 4
    /\ Len(stdout[1].blocks[MaxSites]) = 8
    /\ Len(emailCalls[1].htmlReport.rows[1]) = 4
    /\ Len(emailCalls[1].htmlReport.rows[MaxSites]) = 6

-----------------------------------------------------------------------------
(* Properties of sendEmail, checked under SpecEmail *)

SMTPSettings == config.Email.SMTP

StageNames(call) == [j \in 1..Len(call.log) |-> call.log[j].stage]

\* The stages of a delivery over implicit TLS that nothing stops, with the argument of each
ExpectedStages ==
    <<[stage |-> "DIAL", arg |-> ""], [stage |-> "CLIENT", arg |-> ""]>>
    \o (IF SMTPSettings.Username # "" /\ SMTPSettings.Password # ""
        THEN <<[stage |-> "AUTH", arg |-> SMTPSettings.Username]>> ELSE <<>>)
    \o <<[stage |-> "MAIL", arg |-> ""]>>
    \o [i \in 1..Len(config.Email.To) |-> [stage |-> "RCPT", arg |-> config.Email.To[i]]]
    \o <<[stage |-> "DATA", arg |-> ""], [stage |-> "WRITE", arg |-> ""],
         [stage |-> "CLOSE", arg |-> ""], [stage |-> "QUIT", arg |-> ""]>>

\* C17: sendEmail takes the implicit-TLS path, which dials TLS first, exactly when use_ssl is
\* set, with or without use_tls, and hands the message to smtp.SendMail otherwise, with or
\* without use_tls; on either path plain-auth credentials are used exactly when user name and
\* password are both non-empty.
C17_TransportSelection ==
    \A k \in 1..Len(emailCalls) :
        LET call == emailCalls[k]
        IN  /\ call.path = "ImplicitTLS" <=> SMTPSettings.UseSSL
            /\ call.path = "SendMail" <=> ~SMTPSettings.UseSSL
            /\ call.auth <=> (SMTPSettings.Username # "" /\ SMTPSettings.Password # "")
            /\ call.path = "SendMail" => call.log = <<>>
            /\ (call.path = "ImplicitTLS" /\ Len(call.log) > 0) => call.log[1].stage = "DIAL"
            /\ (\E j \in 1..Len(call.log) : call.log[j].stage = "MAIL") =>
                   (call.auth <=> \E j \in 1..Len(call.log) : call.log[j].stage = "AUTH")

\* With use_ssl and use_tls both set and a user name without a password, the message went
\* out over implicit TLS without AUTH
C17_Witness ==
    /\ SMTPSettings.UseSSL /\ SMTPSettings.UseTLS
    /\ SMTPSettings.Username # "" /\ SMTPSettings.Password = ""
    /\ Len(emailCalls) = 1
    /\ emailCalls[1].path = "ImplicitTLS"
    /\ ~emailCalls[1].auth
    /\ emailCalls[1].returned /\ ~emailCalls[1].err
    /\ StageNames(emailCalls[1])[3] = "MAIL"

\* C18: over implicit TLS the stages run in the order TLS dial, client creation, AUTH (only
\* with credentials), MAIL, one RCPT per recipient in list order, DATA with the message body,
\* QUIT. The first stage that fails is the last one attempted and makes sendEmail return an
\* error; no message data is sent unless MAIL and every RCPT succeeded; no stage runs twice.
C18_StageOrder ==
    \A k \in 1..Len(emailCalls) :
        LET call == emailCalls[k]
            log  == call.log
        IN  call.path = "ImplicitTLS" =>
                /\ Len(log) <= Len(ExpectedStages)
                /\ \A j \in 1..Len(log) :
                       /\ log[j].stage = ExpectedStages[j].stage
                       /\ log[j].arg = ExpectedStages[j].arg
                       /\ j < Len(log) => log[j].ok
                /\ (Len(log) > 0 /\ ~log[Len(log)].ok) => (call.returned /\ call.err)
                /\ call.err => (call.returned /\ Len(log) > 0 /\ ~log[Len(log)].ok)
                /\ (call.returned /\ ~call.err) =>
                       (Len(log) = Len(ExpectedStages) /\ call.sent)
                /\ call.sent =>
                       /\ \E j \in 1..Len(log) : log[j].stage = "MAIL" /\ log[j].ok
                       /\ \A i \in 1..Len(config.Email.To) :
                              \E j \in 1..Len(log) :
                                  /\ log[j].stage = "RCPT"
                                  /\ log[j].arg = config.Email.To[i]
                                  /\ log[j].ok
                /\ call.returned => pc \in {"discord", "exit", "exited"}

\* With credentials and MaxRecipients recipients, the last RCPT was refused: sendEmail has
\* returned an error and no message data went out
C18_Witness ==
    /\ Len(emailCalls) = 1
    /\ emailCalls[1].path = "ImplicitTLS"
    /\ emailCalls[1].auth
    /\ Len(config.Email.To) = MaxRecipients
    /\ Len(emailCalls[1].log) = 4 + MaxRecipients
    /\ emailCalls[1].log[4 + MaxRecipients].stage = "RCPT"
    /\ ~emailCalls[1].log[4 + MaxRecipients].ok
    /\ emailCalls[1].returned /\ emailCalls[1].err
    /\ ~emailCalls[1].sent

-----------------------------------------------------------------------------
(* Properties of the probe connections, checked under Spec *)

\* The dials whose connection is open
OpenConnections == {k \in 1..Len(dials) : dials[k].open}

\* C21: probes run one after the other and leak no connection. At most one probe connection
\* is open at any time; while one is open its probe has not returned and no later site has
\* been dialled; once a probe has returned, with a certificate or with none presented, its
\* connection is closed, and none is open after the scan has returned.
C21_SequentialProbes ==
    /\ Cardinality(OpenConnections) <= 1
    /\ \A k \in 1..Len(dials) : dials[k].err # "" => ~dials[k].open
    /\ pc = "connected" =>
           /\ OpenConnections = {Len(dials)}
           /\ Len(results) = Len(dials) - 1
    /\ pc # "connected" =>
           /\ OpenConnections = {}
           /\ Len(results) = Len(dials)
    /\ conn.open <=> pc = "connected"

\* The scan has returned after MaxSites probes, the first of a server that presented no
\* certificate and the last of one that presented a chain: both connections are closed
C21_Witness ==
    /\ pc = "report"
    /\ Len(dials) = MaxSites
    /\ dials[1].err = "" /\ Len(dials[1].certs) = 0
    /\ dials[MaxSites].err = "" /\ Len(dials[MaxSites].certs) > 0
    /\ OpenConnections = {}
    /\ Len(results) = MaxSites

-----------------------------------------------------------------------------
(* Properties of unordered thresholds, checked under SpecScan *)

\* C22: the settings are taken with the thresholds in any order, and when warningDays <=
\* criticalDays no certificate is classified WARNING: a successfully probed certificate is
\* CRITICAL if its remaining days are negative or at most criticalDays and OK otherwise, so
\* remaining days above warningDays and at most criticalDays give CRITICAL.
C22_WarningUnreachable ==
    W <= C =>
        \A i \in Probed :
            Succeeded(i) =>
                LET d == results[i].DaysRemaining
                IN  /\ results[i].Status # "WARNING"
                    /\ (d < 0 \/ d <= C) => results[i].Status = "CRITICAL"
                    /\ ~(d < 0 \/ d <= C) => results[i].Status = "OK"

\* Under a warning threshold below the critical one a certificate with remaining days between
\* the two has been classified CRITICAL, and one with remaining days at the warning threshold
\* too
C22_Witness ==
    /\ 0 <= W /\ W < C
    /\ Len(results) = 2
    /\ Succeeded(1) /\ results[1].DaysRemaining = W /\ results[1].Status = "CRITICAL"
    /\ Succeeded(2) /\ results[2].DaysRemaining > W /\ results[2].DaysRemaining <= C
    /\ results[2].Status = "CRITICAL"

-----------------------------------------------------------------------------
(* Properties of the emailed report, checked under SpecReport *)

\* C23: the text report in the email comes from a fresh call of generateTextReport inside
\* sendEmail, which reads the clock again: its checked-at line shows the instant of that call,
\* its blocks are the blocks of the report main printed, and it is that report exactly when
\* the displayed second is still the one main printed.
C23_FreshEmailReport ==
    [][Len(emailCalls') > Len(emailCalls) =>
           LET text == emailCalls'[Len(emailCalls')].textReport
           IN  /\ Len(stdout) = 1
               /\ stdout' = stdout
               /\ text.blocks = stdout[1].blocks
               /\ text.checkedAt = <<clock \div DaySeconds, clock % DaySeconds>>
               /\ text = stdout[1] <=>
                      stdout[1].checkedAt = <<clock \div DaySeconds, clock % DaySeconds>>]_vars

\* The email went out a second after main printed the report of MaxSites results: its
\* checked-at line is later, its blocks are the same
C23_Witness ==
    /\ Len(stdout) = 1
    /\ Len(emailCalls) = 1
    /\ Len(results) = MaxSites
    /\ Len(stdout[1].blocks) = MaxSites
    /\ emailCalls[1].textReport.blocks = stdout[1].blocks
    /\ emailCalls[1].textReport.checkedAt[2] > stdout[1].checkedAt[2]
    /\ emailCalls[1].textReport # stdout[1]

====
